---- MODULE Spec2Model ----
(***************************************************************************)
(* Model of chain/blockchain.go (dotcoin): the Blockchain type over a bolt *)
(* store, block acceptance (AddBlock), mining (MineBlock) and its          *)
(* cancellation (TerminationMine), the orphan pool, the chain iterator and *)
(* the queries FindUTXO, FindTransaction, VerifyTransaction and            *)
(* GetBlockHashes.                                                         *)
(*                                                                         *)
(* A hash is a natural number, Nil is the empty byte slice.  A block is a  *)
(* record [hash, prev, height, txs], txs the ids of its transactions.  The *)
(* bolt "blocks" bucket is the pair                                         *)
(* (blocksBucket, lastHashKey): the stored blocks and the value under the  *)
(* reserved last-hash key.  A bolt write transaction is serialised with    *)
(* every other write transaction and is visible to readers at its commit.  *)
(***************************************************************************)
EXTENDS Integers, Sequences, FiniteSets, TLC

\* ------------------------------------------------------------------ bounds
NumPeerBlocks == 3      \* blocks other than genesis that peers can submit
MaxMineCalls == 1       \* MineBlock calls made by the mining goroutine
NumTermCallers == 1     \* goroutines that call TerminationMine
MaxTxPerBlock == 3      \* FindUTXO inputs: transactions in a block
MaxChainLen == 2        \* FindUTXO inputs: blocks in the chain
MaxBatch == 2           \* transactions handed to one MineBlock call
MaxSubmits == 3         \* blocks handed to the orphan pool or the acceptance path
MaxQueryHeight == 4     \* GetBlockHashes inputs: height of the longest chain

\* ------------------------------------------------------------------ blocks
\* The empty hash: len(hash) == 0.
Nil == 0

GenesisHash == 1

\* The blocks peers can submit: genesis, and blocks i = 1, 2, 3, ... at
\* heights 1, 1, 2, 2, 3, ...: two competing blocks at every height, both
\* children of the first block one height below.  Every one of them holds
\* one transaction, its coinbase, whose id is written as the block's hash.
PeerHash(i) == i + 1

PeerHeight(i) == (i + 1) \div 2

PeerBlock(i) ==
    [hash |-> PeerHash(i),
     prev |-> IF PeerHeight(i) = 1 THEN GenesisHash ELSE PeerHash(2 * (PeerHeight(i) - 1) - 1),
     height |-> PeerHeight(i),
     txs |-> <<PeerHash(i)>>]

\* NewGenesisBlock: height 0, empty prevHash.
Genesis == [hash |-> GenesisHash, prev |-> Nil, height |-> 0, txs |-> <<GenesisHash>>]

PeerBlocks == {Genesis} \cup {PeerBlock(i) : i \in 1..NumPeerBlocks}

\* The hash of the block found by the k-th MineBlock call.
MinedHash(k) == NumPeerBlocks + 1 + k

TermCallers == 1..NumTermCallers

VARIABLES
    blocksBucket,    \* bolt bucket: the set of stored blocks (committed)
    lastHashKey,     \* bolt bucket: value under BoltLastHashKey (committed), Nil if unset
    lastBlockHash,   \* bc.lastBlockHash
    wtx,             \* the open bolt write transaction of AddBlock: << >> or <<[block, bucket, last]>>
    minePc,          \* position of the mining goroutine in MineBlock, or how its last call returned
    mineCount,       \* MineBlock calls started so far
    mineLastHash,    \* MineBlock: lastHash
    mineLastHeight,  \* MineBlock: lastHeight
    isSolve,         \* MineBlock: isSolve as returned by NewBlock
    termPc,          \* position of each TerminationMine caller
    termIssue,       \* history: mineCount when the caller started its send
    bciHash,         \* BlockchainIterator.currentHash
    bciStatus,       \* what the iterator's last Next did
    utxoChain,       \* FindUTXO: the blocks the iterator returns, tip first, as transaction lists
    utxoPc,          \* FindUTXO: "idle" or "done"
    utxoResult,      \* FindUTXO: the returned map
    mineTxs,         \* MineBlock: transactions
    orphanBlocks,    \* bc.orphanBlocks: hash -> block
    prevOrphanBlocks,\* bc.prevOrphanBlocks: prevHash -> list of blocks
    submitted,       \* history: the blocks handed in so far, as [op, hash]
    qCall,           \* the last query call: [op, arguments], op "none" before it
    qRet             \* what the last query call returned: [err, results], err "none" before it

chainVars == <<blocksBucket, lastHashKey, lastBlockHash>>
mineVars == <<minePc, mineCount, mineLastHash, mineLastHeight, isSolve, mineTxs>>
termVars == <<termPc, termIssue>>
bciVars == <<bciHash, bciStatus>>
utxoVars == <<utxoChain, utxoPc, utxoResult>>
orphanVars == <<orphanBlocks, prevOrphanBlocks, submitted>>
qVars == <<qCall, qRet>>
vars == <<blocksBucket, lastHashKey, lastBlockHash, wtx, minePc, mineCount,
          mineLastHash, mineLastHeight, isSolve, termPc, termIssue, bciHash, bciStatus,
          utxoChain, utxoPc, utxoResult, mineTxs, orphanBlocks, prevOrphanBlocks,
          submitted, qCall, qRet>>

\* ------------------------------------------------------------------ store
\* b.Get(hash) on the blocks bucket: the stored block, or << >> for nil.
BucketGet(bucket, hash) ==
    IF \E b \in bucket : b.hash = hash
    THEN <<CHOOSE b \in bucket : b.hash = hash>>
    ELSE << >>

\* b.Put(block.Hash, SerializeBlock(block))
BucketPut(bucket, block) ==
    {b \in bucket : b.hash # block.hash} \cup {block}

\* storage.SaveBlock: one write transaction that stores the block and sets
\* the last-hash key to it.
SaveBlock(bucket, block) ==
    [bucket |-> BucketPut(bucket, block), last |-> block.hash]

HaveBlock(hash) == BucketGet(blocksBucket, hash) # << >>

\* GetBestHeight: height of the block at the persisted tip, 0 if none.
GetBestHeight ==
    LET data == BucketGet(blocksBucket, lastHashKey)
    IN  IF data = << >> THEN 0 ELSE data[1].height

\* log.Panic has stopped the process: in MineBlock, or in a VerifyTransaction
\* call made from elsewhere.
Halted == minePc = "panic" \/ qRet.err = "panic"

\* ------------------------------------------------------------------ transactions
\* The single input of a coinbase transaction: an empty previous hash.
CoinbaseInput == [hash |-> Nil, index |-> -1]

\* tx.IsCoinBase()
IsCoinBase(tx) == Len(tx.inputs) = 1 /\ tx.inputs[1].hash = Nil

\* A transaction handed to MineBlock or VerifyTransaction is
\* [id, inputs, sigOK]: sigOK is what the signature check of tx.Verify finds.
CoinbaseTx(id) == [id |-> id, inputs |-> <<CoinbaseInput>>, sigOK |-> TRUE]

\* The id of the transaction that spends output 0 of transaction prior; it
\* differs from the id of every coinbase.
SpendTxId(prior, ok) == 2 * (NumPeerBlocks + MaxMineCalls + 1 + prior) + (IF ok THEN 1 ELSE 0)

SpendTx(prior, ok) ==
    [id |-> SpendTxId(prior, ok), inputs |-> <<[hash |-> prior, index |-> 0]>>, sigOK |-> ok]

\* The transaction a spend can refer to: the coinbase of the first block at
\* height 1.
PriorIds == {PeerHash(1)}

\* The transactions the k-th MineBlock call can be handed: the coinbase of
\* the block to mine, and spends with a good or a bad signature.
TxPool(k) == {CoinbaseTx(MinedHash(k))} \cup {SpendTx(p, ok) : p \in PriorIds, ok \in BOOLEAN}

Batches(k) == UNION {[1..n -> TxPool(k)] : n \in 1..MaxBatch}

\* The batch of a miner without pending transactions: the coinbase alone.
CoinbaseBatch(k) == <<CoinbaseTx(MinedHash(k))>>

\* BlockchainIterator.Next at position hash: "nil" at an empty position,
\* else "ok" and the block stored under hash; "unreadable" when there is
\* none.
BciNext(bucket, hash) ==
    IF hash = Nil THEN [status |-> "nil", block |-> << >>]
    ELSE IF BucketGet(bucket, hash) = << >> THEN [status |-> "unreadable", block |-> << >>]
    ELSE [status |-> "ok", block |-> BucketGet(bucket, hash)[1]]

\* FindTransactionFrom that looks at every stored block.
FindTransactionAnywhere(bucket, hash, ID) ==
    IF \E b \in bucket : \E i \in 1..Len(b.txs) : b.txs[i] = ID
    THEN "found"
    ELSE "ErrorNotFoundTransaction"

RECURSIVE FindTransactionFrom(_, _, _)
\* The loop of FindTransaction (lines 350-365) with the iterator at hash:
\* "found" stands for (tx, nil).  A block that Next cannot read ends the
\* walk as "unreadable".
FindTransactionFrom(bucket, hash, ID) ==
    LET next == BciNext(bucket, hash)
        block == next.block
    IN  IF next.status = "nil" THEN "ErrorNotFoundTransaction"
        ELSE IF next.status = "unreadable" THEN "unreadable"
        ELSE IF \E i \in 1..Len(block.txs) : block.txs[i] = ID THEN "found"
        ELSE IF block.prev = Nil THEN "ErrorNotFoundTransaction"
        ELSE FindTransactionFrom(bucket, block.prev, ID)

\* FindTransaction(ID): the iterator starts at bc.lastBlockHash.
FindTransaction(ID) == FindTransactionFrom(blocksBucket, lastBlockHash, ID)

\* tx.Verify(prevTXs): the signature check.
Verify(tx) == tx.sigOK

\* VerifyTransaction that reports a missing previous transaction as false.
VerifyTransactionLenient(tx) ==
    IF IsCoinBase(tx) THEN "true"
    ELSE IF \E i \in 1..Len(tx.inputs) : FindTransaction(tx.inputs[i].hash) # "found"
         THEN "false"
         ELSE IF Verify(tx) THEN "true" ELSE "false"

\* VerifyTransaction(tx): "true", "false", or "panic" for log.Panic (line
\* 378), which every FindTransaction that does not return a transaction
\* leads to.
VerifyTransaction(tx) ==
    IF IsCoinBase(tx) THEN "true"
    ELSE IF \E i \in 1..Len(tx.inputs) : FindTransaction(tx.inputs[i].hash) # "found"
         THEN "panic"
         ELSE IF Verify(tx) THEN "true" ELSE "false"

\* The FindTransaction calls of VerifyTransaction(tx): the ids it looks up.
VerifyLookups(tx) ==
    IF IsCoinBase(tx) THEN << >> ELSE [i \in 1..Len(tx.inputs) |-> tx.inputs[i].hash]

\* The transactions FindTransaction is asked for and VerifyTransaction is
\* handed outside of MineBlock.
QueryIds == {GenesisHash, PeerHash(1), PeerHash(2)}

QueryTxs == {CoinbaseTx(GenesisHash)} \cup {SpendTx(p, ok) : p \in PriorIds, ok \in BOOLEAN}

\* A call of FindTransaction(ID): ret "found" stands for the transaction.
FindTransactionCall(ID) ==
    /\ ~Halted
    /\ qCall.op = "none"
    /\ qCall' = [op |-> "FindTransaction", ID |-> ID]
    /\ qRet' = IF FindTransaction(ID) = "found"
               THEN [err |-> "nil", ret |-> "found"]
               ELSE [err |-> FindTransaction(ID), ret |-> "nil"]
    /\ UNCHANGED <<utxoVars, orphanVars, chainVars, wtx, mineVars, termVars, bciVars>>

\* A call of VerifyTransaction(tx) from outside MineBlock: log.Panic stops
\* the process.
VerifyTransactionCall(tx) ==
    /\ ~Halted
    /\ qCall.op = "none"
    /\ qCall' = [op |-> "VerifyTransaction", tx |-> tx]
    /\ qRet' = IF VerifyTransaction(tx) = "panic"
               THEN [err |-> "panic", ret |-> "none", lookups |-> VerifyLookups(tx)]
               ELSE [err |-> "nil", ret |-> VerifyTransaction(tx), lookups |-> VerifyLookups(tx)]
    /\ UNCHANGED <<utxoVars, orphanVars, chainVars, wtx, mineVars, termVars, bciVars>>

\* ------------------------------------------------------------------ Init
\* No call is in progress and none was made.
InitProcs ==
    /\ wtx = << >>
    /\ minePc = "idle"
    /\ mineCount = 0
    /\ mineLastHash = Nil
    /\ mineLastHeight = 0
    /\ isSolve = FALSE
    /\ termPc = [c \in TermCallers |-> "idle"]
    /\ termIssue = [c \in TermCallers |-> 0]
    /\ bciHash = Nil
    /\ bciStatus = "none"
    /\ mineTxs = << >>
    /\ orphanBlocks = [h \in {} |-> << >>]
    /\ prevOrphanBlocks = [h \in {} |-> << >>]
    /\ submitted = << >>
    /\ qCall = [op |-> "none"]
    /\ qRet = [err |-> "none"]

\* CreateBlockchain(isGenesisNode, ...): a genesis node stores the genesis
\* block, any other node starts with an empty bucket.
InitChain ==
    /\ \E isGenesisNode \in BOOLEAN :
        IF isGenesisNode
        THEN /\ blocksBucket = {Genesis}
             /\ lastHashKey = GenesisHash
             /\ lastBlockHash = GenesisHash
        ELSE /\ blocksBucket = {}
             /\ lastHashKey = Nil
             /\ lastBlockHash = Nil
    /\ InitProcs

Init ==
    /\ InitChain
    /\ utxoChain = << >>
    /\ utxoPc = "idle"
    /\ utxoResult = << >>

\* ------------------------------------------------------------------ AddBlock
\* AddBlockTx with the tip advanced only by a strictly higher block.
AddBlockTxStrict(bucket, last, mem, block) ==
    IF BucketGet(bucket, block.hash) # << >>
    THEN [bucket |-> bucket, last |-> last, mem |-> mem]
    ELSE LET put == BucketPut(bucket, block)
             lastBlockData == BucketGet(put, last)
             bestHeight == IF lastBlockData = << >> THEN 0 ELSE lastBlockData[1].height
         IN  IF block.height > bestHeight
             THEN [bucket |-> put, last |-> block.hash, mem |-> block.hash]
             ELSE [bucket |-> put, last |-> last, mem |-> mem]

\* AddBlockTx without the check for a block that is already stored.
AddBlockTxNoCheck(bucket, last, mem, block) ==
    LET put == BucketPut(bucket, block)
        lastBlockData == BucketGet(put, last)
        bestHeight == IF lastBlockData = << >> THEN 0 ELSE lastBlockData[1].height
    IN  IF block.height >= bestHeight
        THEN [bucket |-> put, last |-> block.hash, mem |-> block.hash]
        ELSE [bucket |-> put, last |-> last, mem |-> mem]

\* AddBlockTx with the tip moved to every block that is stored.
AddBlockTxLatest(bucket, last, mem, block) ==
    IF BucketGet(bucket, block.hash) # << >>
    THEN [bucket |-> bucket, last |-> last, mem |-> mem]
    ELSE [bucket |-> BucketPut(bucket, block), last |-> block.hash, mem |-> block.hash]

\* The body of the db.Update closure of AddBlock, run on the transaction's
\* view (bucket, last) of the store and on bc.lastBlockHash (mem).
AddBlockTx(bucket, last, mem, block) ==
    IF BucketGet(bucket, block.hash) # << >>
    THEN [bucket |-> bucket, last |-> last, mem |-> mem]
    ELSE LET put == BucketPut(bucket, block)
             lastBlockData == BucketGet(put, last)
             bestHeight == IF lastBlockData = << >> THEN 0 ELSE lastBlockData[1].height
         IN  IF block.height >= bestHeight
             THEN [bucket |-> put, last |-> block.hash, mem |-> block.hash]
             ELSE [bucket |-> put, last |-> last, mem |-> mem]

\* AddBlock(block) up to the end of the closure: db.Update has taken bolt's
\* writer lock, the Puts are pending in the transaction, and the assignment
\* to bc.lastBlockHash (line 188) has already taken effect.
AddBlockUpdate(block) ==
    /\ ~Halted
    /\ wtx = << >>
    /\ LET r == AddBlockTx(blocksBucket, lastHashKey, lastBlockHash, block)
       IN  /\ wtx' = <<[block |-> block, bucket |-> r.bucket, last |-> r.last]>>
           /\ lastBlockHash' = r.mem
    /\ UNCHANGED <<utxoVars, orphanVars, qVars, blocksBucket, lastHashKey, mineVars, termVars, bciVars>>

\* db.Update commits the transaction and AddBlock returns.
AddBlockCommit ==
    /\ ~Halted
    /\ wtx # << >>
    /\ blocksBucket' = wtx[1].bucket
    /\ lastHashKey' = wtx[1].last
    /\ wtx' = << >>
    /\ UNCHANGED <<utxoVars, orphanVars, qVars, lastBlockHash, mineVars, termVars, bciVars>>

\* ------------------------------------------------------------------ orphan pool
\* m[k] = v on a Go map.
MapPut(m, k, v) == [x \in DOMAIN m \cup {k} |-> IF x = k THEN v ELSE m[x]]

\* m[k] on a Go map of slices: the empty slice for a missing key.
MapGet(m, k) == IF k \in DOMAIN m THEN m[k] ELSE << >>

\* delete(m, k) for every k of keys.
MapDelete(m, keys) == [x \in DOMAIN m \ keys |-> m[x]]

\* addOrphanBlock with the second index keyed by the block's own hash.
addOrphanBlockByHash(orphans, prevOrphans, block) ==
    [orphans |-> MapPut(orphans, block.hash, block),
     prevOrphans |-> MapPut(prevOrphans, block.hash, Append(MapGet(prevOrphans, block.hash), block))]

\* addOrphanBlock(block) on the two maps (lines 148-153).
addOrphanBlock(orphans, prevOrphans, block) ==
    [orphans |-> MapPut(orphans, block.hash, block),
     prevOrphans |-> MapPut(prevOrphans, block.prev, Append(MapGet(prevOrphans, block.prev), block))]

\* A call of addOrphanBlock, under bc.orphanLock.
AddOrphanBlockCall(block) ==
    /\ ~Halted
    /\ Len(submitted) < MaxSubmits
    /\ LET r == addOrphanBlock(orphanBlocks, prevOrphanBlocks, block)
       IN  /\ orphanBlocks' = r.orphans
           /\ prevOrphanBlocks' = r.prevOrphans
    /\ submitted' = Append(submitted, [op |-> "addOrphanBlock", hash |-> block.hash])
    /\ UNCHANGED <<utxoVars, qVars, chainVars, wtx, mineVars, termVars, bciVars>>

\* A whole AddBlock(block) call, from db.Update to its commit, with no
\* other call in between.
AddBlockCall(block) ==
    /\ ~Halted
    /\ wtx = << >>
    /\ Len(submitted) < MaxSubmits
    /\ LET r == AddBlockTx(blocksBucket, lastHashKey, lastBlockHash, block)
       IN  /\ blocksBucket' = r.bucket
           /\ lastHashKey' = r.last
           /\ lastBlockHash' = r.mem
    /\ submitted' = Append(submitted, [op |-> "AddBlock", hash |-> block.hash])
    /\ UNCHANGED <<utxoVars, qVars, orphanBlocks, prevOrphanBlocks, wtx, mineVars, termVars, bciVars>>

RECURSIVE AddBlocks(_, _)
\* AddBlock on every block of list, in order; st is [bucket, last, mem].
AddBlocks(st, list) ==
    IF list = << >> THEN st
    ELSE AddBlocks(AddBlockTx(st.bucket, st.last, st.mem, Head(list)), Tail(list))

RECURSIVE ReconcileOrphans(_, _)
\* ReconcileOrphans: for every hash of work, the orphans keyed by it are
\* popped from both maps and handed to AddBlock, and their hashes join the
\* work, until none is left.  st is [bucket, last, mem, orphans, prevOrphans].
ReconcileOrphans(st, work) ==
    IF work = << >> THEN st
    ELSE LET list == MapGet(st.prevOrphans, Head(work))
             hashes == [i \in 1..Len(list) |-> list[i].hash]
             added == AddBlocks([bucket |-> st.bucket, last |-> st.last, mem |-> st.mem], list)
         IN  ReconcileOrphans([bucket |-> added.bucket, last |-> added.last, mem |-> added.mem,
                               orphans |-> MapDelete(st.orphans, {hashes[i] : i \in 1..Len(hashes)}),
                               prevOrphans |-> MapDelete(st.prevOrphans, {Head(work)})],
                              Tail(work) \o hashes)

\* ReconcileOrphans(newlyAcceptedHash), called after a block was accepted.
ReconcileOrphansCall(hash) ==
    /\ ~Halted
    /\ wtx = << >>
    /\ Len(submitted) < MaxSubmits
    /\ LET r == ReconcileOrphans([bucket |-> blocksBucket, last |-> lastHashKey,
                                  mem |-> lastBlockHash, orphans |-> orphanBlocks,
                                  prevOrphans |-> prevOrphanBlocks], <<hash>>)
       IN  /\ blocksBucket' = r.bucket
           /\ lastHashKey' = r.last
           /\ lastBlockHash' = r.mem
           /\ orphanBlocks' = r.orphans
           /\ prevOrphanBlocks' = r.prevOrphans
    /\ submitted' = Append(submitted, [op |-> "ReconcileOrphans", hash |-> hash])
    /\ UNCHANGED <<utxoVars, qVars, wtx, mineVars, termVars, bciVars>>

\* ------------------------------------------------------------------ MineBlock
\* minePc when no MineBlock call is running: never called, or the way the
\* last call returned: (block, false), (nil, false), (block, true).
MineReturned == {"idle", "unsolved", "saveerr", "solved"}

\* MineBlockBegin without the verification loop.
MineBlockBeginUnverified(txs) ==
    /\ ~Halted
    /\ minePc \in MineReturned
    /\ mineCount < MaxMineCalls
    /\ mineTxs' = txs
    /\ LET lastBlockData == BucketGet(blocksBucket, lastHashKey)
       IN  IF lastBlockData = << >>
           THEN /\ minePc' = "panic"
                /\ UNCHANGED <<mineCount, mineLastHash, mineLastHeight>>
           ELSE /\ minePc' = "pow"
                /\ mineCount' = mineCount + 1
                /\ mineLastHash' = lastHashKey
                /\ mineLastHeight' = lastBlockData[1].height
    /\ UNCHANGED <<utxoVars, orphanVars, qVars, chainVars, wtx, isSolve, termVars, bciVars>>

\* MineBlock(transactions) up to the call of NewBlock.  The loop of lines
\* 230-235 panics at the first transaction that VerifyTransaction does not
\* return true for.  Then storage.GetLastBlock reads the persisted tip and
\* its block in one read transaction; without a tip block the call panics
\* (lines 237-242).
MineBlockBegin(txs) ==
    /\ ~Halted
    /\ minePc \in MineReturned
    /\ mineCount < MaxMineCalls
    /\ mineTxs' = txs
    /\ LET lastBlockData == BucketGet(blocksBucket, lastHashKey)
       IN  IF \/ \E i \in 1..Len(txs) : VerifyTransaction(txs[i]) # "true"
              \/ lastBlockData = << >>
           THEN /\ minePc' = "panic"
                /\ UNCHANGED <<mineCount, mineLastHash, mineLastHeight>>
           ELSE /\ minePc' = "pow"
                /\ mineCount' = mineCount + 1
                /\ mineLastHash' = lastHashKey
                /\ mineLastHeight' = lastBlockData[1].height
    /\ UNCHANGED <<utxoVars, orphanVars, qVars, chainVars, wtx, isSolve, termVars, bciVars>>

\* NewBlock at the height of the tip that was read.
NewBlockSameHeight ==
    [hash |-> MinedHash(mineCount), prev |-> mineLastHash, height |-> mineLastHeight,
     txs |-> [i \in 1..Len(mineTxs) |-> mineTxs[i].id]]

\* newBlock of MineBlock: NewBlock(transactions, lastHash, lastHeight+1, ...)
NewBlock ==
    [hash |-> MinedHash(mineCount), prev |-> mineLastHash, height |-> mineLastHeight + 1,
     txs |-> [i \in 1..Len(mineTxs) |-> mineTxs[i].id]]

\* NewBlock's search finds a nonce: it returns (block, true).
NewBlockSolved ==
    /\ ~Halted
    /\ minePc = "pow"
    /\ minePc' = "powdone"
    /\ isSolve' = TRUE
    /\ UNCHANGED <<utxoVars, orphanVars, qVars, chainVars, wtx, mineCount, mineLastHash, mineLastHeight, mineTxs, termVars, bciVars>>

\* NewBlock's search receives from bc.miningQuit, which TerminationMine
\* caller c is sending on: it returns (block, false), and c's send returns.
NewBlockQuit(c) ==
    /\ ~Halted
    /\ minePc = "pow"
    /\ termPc[c] = "send"
    /\ minePc' = "powdone"
    /\ isSolve' = FALSE
    /\ termPc' = [termPc EXCEPT ![c] = "idle"]
    /\ termIssue' = [termIssue EXCEPT ![c] = 0]
    /\ UNCHANGED <<utxoVars, orphanVars, qVars, chainVars, wtx, mineCount, mineLastHash, mineLastHeight, mineTxs, bciVars>>

\* MineBlockAfterPow that saves the block whatever NewBlock returned.
MineBlockAfterPowAlways(solved) ==
    /\ wtx = << >>
    /\ \E saved \in BOOLEAN :
         IF saved
         THEN /\ blocksBucket' = SaveBlock(blocksBucket, NewBlock).bucket
              /\ lastHashKey' = SaveBlock(blocksBucket, NewBlock).last
              /\ minePc' = "setlast"
         ELSE /\ minePc' = "saveerr"
              /\ UNCHANGED <<blocksBucket, lastHashKey>>

\* MineBlock after NewBlock returned (lines 246-255): nothing is saved
\* when the search was not solved; otherwise storage.SaveBlock runs its own
\* write transaction, and MineBlock returns (nil, false) when that fails.
MineBlockAfterPow(solved) ==
    IF ~solved
    THEN /\ minePc' = "unsolved"
         /\ UNCHANGED <<blocksBucket, lastHashKey>>
    ELSE /\ wtx = << >>
         /\ \E saved \in BOOLEAN :
              IF saved
              THEN /\ blocksBucket' = SaveBlock(blocksBucket, NewBlock).bucket
                   /\ lastHashKey' = SaveBlock(blocksBucket, NewBlock).last
                   /\ minePc' = "setlast"
              ELSE /\ minePc' = "saveerr"
                   /\ UNCHANGED <<blocksBucket, lastHashKey>>

\* The locals of MineBlock are gone when it has returned.
MineLocalsAfter ==
    IF minePc' \in MineReturned
    THEN mineLastHash' = Nil /\ mineLastHeight' = 0 /\ isSolve' = FALSE /\ mineTxs' = << >>
    ELSE UNCHANGED <<mineLastHash, mineLastHeight, isSolve, mineTxs>>

MineBlockSave ==
    /\ ~Halted
    /\ minePc = "powdone"
    /\ MineBlockAfterPow(isSolve)
    /\ MineLocalsAfter
    /\ UNCHANGED <<utxoVars, orphanVars, qVars, lastBlockHash, wtx, mineCount, termVars, bciVars>>

\* bc.lastBlockHash = newBlock.Hash (line 256), then MineBlock returns
\* (newBlock, true).
MineBlockSetLast ==
    /\ ~Halted
    /\ minePc = "setlast"
    /\ lastBlockHash' = NewBlock.hash
    /\ minePc' = "solved"
    /\ MineLocalsAfter
    /\ UNCHANGED <<utxoVars, orphanVars, qVars, blocksBucket, lastHashKey, wtx, mineCount, termVars, bciVars>>

\* ------------------------------------------------------------------ TerminationMine
\* TerminationMine: bc.miningQuit <- struct{}{} on the unbuffered channel
\* made in CreateBlockchain; the send returns when NewBlockQuit receives it.
TerminationMine(c) ==
    /\ ~Halted
    /\ termPc[c] = "idle"
    /\ termPc' = [termPc EXCEPT ![c] = "send"]
    /\ termIssue' = [termIssue EXCEPT ![c] = mineCount]
    /\ UNCHANGED <<utxoVars, orphanVars, qVars, chainVars, wtx, mineVars, bciVars>>

\* ------------------------------------------------------------------ Iterator
\* bc.Iterator(): a BlockchainIterator positioned at bc.lastBlockHash.
Iterator ==
    /\ ~Halted
    /\ bciHash' = lastBlockHash
    /\ bciStatus' = "new"
    /\ UNCHANGED <<utxoVars, orphanVars, qVars, chainVars, wtx, mineVars, termVars>>

\* BlockchainIterator.Next: nil at an empty position, else the block at
\* the position, read from the store in a read transaction, and the
\* position moves to its parent.
IteratorNext ==
    /\ ~Halted
    /\ bciStatus \in {"new", "ok"}
    /\ IF bciHash = Nil
       THEN /\ bciStatus' = "nil"
            /\ bciHash' = bciHash
       ELSE LET data == BucketGet(blocksBucket, bciHash)
            IN  IF data = << >>
                THEN /\ bciStatus' = IF bciStatus = "new" THEN "tip_unreadable" ELSE "unreadable"
                     /\ bciHash' = bciHash
                ELSE /\ bciStatus' = "ok"
                     /\ bciHash' = data[1].prev
    /\ UNCHANGED <<utxoVars, orphanVars, qVars, chainVars, wtx, mineVars, termVars>>

\* ------------------------------------------------------------------ GetBlockHashes
\* bci.LocationHash(hash): moves the iterator to hash, and fails when no
\* block is stored under it.
LocationHash(bucket, hash) == BucketGet(bucket, hash) # << >>

RECURSIVE GetBlockHashesLoop(_, _, _, _, _, _)
\* The loop of GetBlockHashes (lines 443-464) with the iterator at hash.
\* Line 446 dereferences the block that Next returned: when Next has no
\* block to return the goroutine panics.
GetBlockHashesLoop(bucket, hash, stopHash, maxNum, blocks, getCount) ==
    LET next == BciNext(bucket, hash)
        block == next.block
    IN  IF next.status # "ok" THEN [err |-> "panic", blocks |-> << >>]
        ELSE IF stopHash = block.hash THEN [err |-> "nil", blocks |-> blocks]
        ELSE IF block.prev = Nil \/ getCount + 1 >= maxNum
             THEN [err |-> "nil", blocks |-> Append(blocks, block.hash)]
             ELSE GetBlockHashesLoop(bucket, block.prev, stopHash, maxNum,
                                     Append(blocks, block.hash), getCount + 1)

\* GetBlockHashes(beginHash, stopHash, maxNum) on the stored blocks: the
\* returned (blocks, err).
GetBlockHashes(bucket, beginHash, stopHash, maxNum) ==
    IF ~LocationHash(bucket, beginHash)
    THEN [err |-> "LocationHash", blocks |-> << >>]
    ELSE GetBlockHashesLoop(bucket, beginHash, stopHash, maxNum, << >>, 0)

GetBlockHashesCall(beginHash, stopHash, maxNum) ==
    /\ ~Halted
    /\ qCall.op = "none"
    /\ qCall' = [op |-> "GetBlockHashes", beginHash |-> beginHash, stopHash |-> stopHash,
                 maxNum |-> maxNum]
    /\ qRet' = GetBlockHashes(blocksBucket, beginHash, stopHash, maxNum)
    /\ UNCHANGED <<utxoVars, orphanVars, chainVars, wtx, mineVars, termVars, bciVars>>

\* The blocks of the stores GetBlockHashes is called on: genesis and the
\* peer blocks up to height maxHeight.
QueryBlocks(maxHeight) == {Genesis} \cup {PeerBlock(i) : i \in 1..(2 * maxHeight - 1)}

\* The hash of a highest block of bucket, Nil for an empty one.
TipOf(bucket) ==
    IF bucket = {} THEN Nil
    ELSE (CHOOSE b \in bucket : \A c \in bucket : c.height <= b.height).hash

\* ------------------------------------------------------------------ FindUTXO
\* A transaction is [id, inputs, nout]: inputs is a sequence of previous
\* out points [hash, index], and its outputs are numbered 0..nout-1.
\* Output i of transaction id, as it is stored in the returned map.
TXOutput(id, i) == [tx |-> id, idx |-> i]

Outputs(tx) == [i \in 1..tx.nout |-> TXOutput(tx.id, i - 1)]

\* The transactions a block can hold at position id of the chain, given the
\* unspent outputs before it: the block's first transaction is a coinbase,
\* every other one spends one unspent output and has one or two outputs.
TxChoices(avail, id, first) ==
    IF first
    THEN {[id |-> id, inputs |-> <<CoinbaseInput>>, nout |-> 1]}
    ELSE {[id |-> id, inputs |-> <<[hash |-> o.tx, index |-> o.idx]>>, nout |-> n] :
            o \in avail, n \in 1..2}

AvailAfter(avail, tx) ==
    (avail \ {TXOutput(tx.inputs[i].hash, tx.inputs[i].index) : i \in 1..Len(tx.inputs)})
        \cup {Outputs(tx)[i] : i \in 1..tx.nout}

RECURSIVE BlocksOf(_, _, _, _)
\* The blocks of n transactions with ids id, id+1, ...
BlocksOf(avail, id, n, first) ==
    IF n = 0 THEN {<< >>}
    ELSE UNION {{<<t>> \o rest : rest \in BlocksOf(AvailAfter(avail, t), id + 1, n - 1, FALSE)} :
                  t \in TxChoices(avail, id, first)}

RECURSIVE AvailAfterBlock(_, _)
AvailAfterBlock(avail, blk) ==
    IF blk = << >> THEN avail ELSE AvailAfterBlock(AvailAfter(avail, Head(blk)), Tail(blk))

RECURSIVE ChainsOf(_, _, _)
\* The chains of len blocks, in the order the iterator returns them (tip
\* first); transaction ids count up from genesis.
ChainsOf(avail, id, len) ==
    IF len = 0 THEN {<< >>}
    ELSE UNION {UNION {{rest \o <<blk>> :
                          rest \in ChainsOf(AvailAfterBlock(avail, blk), id + n, len - 1)} :
                       blk \in BlocksOf(avail, id, n, TRUE)} :
                n \in 1..MaxTxPerBlock}

\* The chains of 1..maxLen blocks.
Chains(maxLen) == UNION {ChainsOf({}, 1, len) : len \in 1..maxLen}

TxIds == 1..(MaxTxPerBlock * MaxChainLen)

\* Lines 284-297: the outputs of tx that spentTXOs does not list are
\* appended to UTXO[txID].
ScanOutputs(UTXO, spentTXOs, tx) ==
    LET unspent(out) == \A k \in 1..Len(spentTXOs[tx.id]) : spentTXOs[tx.id][k] # out.idx
    IN  [UTXO EXCEPT ![tx.id] = @ \o SelectSeq(Outputs(tx), unspent)]

RECURSIVE ScanInputs(_, _)
\* Lines 300-303: the out point of every input is appended to spentTXOs.
ScanInputs(spentTXOs, inputs) ==
    IF inputs = << >> THEN spentTXOs
    ELSE ScanInputs([spentTXOs EXCEPT ![Head(inputs).hash] = Append(@, Head(inputs).index)],
                    Tail(inputs))

RECURSIVE ScanTxs(_, _)
\* Lines 280-305: the transactions of a block, in block order.
ScanTxs(st, txs) ==
    IF txs = << >> THEN st
    ELSE LET tx == Head(txs)
         IN  ScanTxs([UTXO |-> ScanOutputs(st.UTXO, st.spentTXOs, tx),
                      spentTXOs |-> IF IsCoinBase(tx) = FALSE
                                    THEN ScanInputs(st.spentTXOs, tx.inputs)
                                    ELSE st.spentTXOs],
                     Tail(txs))

RECURSIVE ScanBlocks(_, _)
\* Lines 277-310: the blocks from the tip to the block without a prevHash.
ScanBlocks(st, blocks) ==
    IF blocks = << >> THEN st
    ELSE ScanBlocks(ScanTxs(st, Head(blocks)), Tail(blocks))

\* FindUTXO on the chain the iterator walks: a map from transaction id to
\* its outputs, << >> for an id that is not a key of the map.
FindUTXO(chain) ==
    ScanBlocks([UTXO |-> [id \in TxIds |-> << >>], spentTXOs |-> [id \in TxIds |-> << >>]],
               chain).UTXO

FindUTXOCall ==
    /\ utxoPc = "idle"
    /\ utxoChain # << >>
    /\ utxoResult' = FindUTXO(utxoChain)
    /\ utxoPc' = "done"
    /\ UNCHANGED <<utxoChain, orphanVars, qVars, chainVars, wtx, mineVars, termVars, bciVars>>

\* Block acceptance, mining and its cancellation.
Next ==
    \/ \E block \in PeerBlocks : AddBlockUpdate(block)
    \/ AddBlockCommit
    \/ MineBlockBegin(CoinbaseBatch(mineCount + 1))
    \/ NewBlockSolved
    \/ \E c \in TermCallers : NewBlockQuit(c)
    \/ MineBlockSave
    \/ MineBlockSetLast
    \/ \E c \in TermCallers : TerminationMine(c)

Spec == Init /\ [][Next]_vars

\* Block acceptance, mining, and a reader walking the chain with an iterator.
NextReader ==
    \/ \E block \in PeerBlocks : AddBlockUpdate(block)
    \/ AddBlockCommit
    \/ MineBlockBegin(CoinbaseBatch(mineCount + 1))
    \/ NewBlockSolved
    \/ MineBlockSave
    \/ MineBlockSetLast
    \/ Iterator
    \/ IteratorNext

SpecReader == Init /\ [][NextReader]_vars

\* FindUTXO on every chain of the bounded set.
InitUTXO ==
    /\ InitChain
    /\ utxoChain \in Chains(MaxChainLen)
    /\ utxoPc = "idle"
    /\ utxoResult = << >>

NextUTXO == FindUTXOCall

SpecUTXO == InitUTXO /\ [][NextUTXO]_vars

\* Blocks handed to AddBlock and to addOrphanBlock in any order, and the
\* reconnection sweep.
NextOrphan ==
    \/ \E block \in PeerBlocks : AddBlockCall(block)
    \/ \E block \in PeerBlocks : AddOrphanBlockCall(block)
    \/ \E block \in PeerBlocks : ReconcileOrphansCall(block.hash)
    \/ \E ID \in QueryIds : FindTransactionCall(ID)

SpecOrphan == Init /\ [][NextOrphan]_vars

\* Acceptance of genesis and of the two competing blocks at height 1,
\* mining of every batch, and VerifyTransaction calls.
NextMine ==
    \/ \E block \in {Genesis, PeerBlock(1), PeerBlock(2)} : AddBlockUpdate(block)
    \/ AddBlockCommit
    \/ \E txs \in Batches(mineCount + 1) : MineBlockBegin(txs)
    \/ NewBlockSolved
    \/ MineBlockSave
    \/ MineBlockSetLast
    \/ \E tx \in QueryTxs : VerifyTransactionCall(tx)

SpecMine == Init /\ [][NextMine]_vars

\* GetBlockHashes on every set of stored blocks that AddBlock calls can
\* leave behind (AddBlock stores whatever it is handed), with a highest
\* block as the tip.
InitHashes ==
    /\ blocksBucket \in SUBSET QueryBlocks(MaxQueryHeight)
    /\ lastHashKey = TipOf(blocksBucket)
    /\ lastBlockHash = TipOf(blocksBucket)
    /\ InitProcs
    /\ utxoChain = << >>
    /\ utxoPc = "idle"
    /\ utxoResult = << >>

NextHashes ==
    \E beginHash \in {b.hash : b \in QueryBlocks(MaxQueryHeight)},
       stopHash \in {Nil} \cup {b.hash : b \in QueryBlocks(MaxQueryHeight)},
       maxNum \in 0..(MaxQueryHeight + 2) :
        GetBlockHashesCall(beginHash, stopHash, maxNum)

SpecHashes == InitHashes /\ [][NextHashes]_vars

\* ------------------------------------------------------------------ claims
\* The AddBlock call whose transaction is opened, or committed, by a step.
Opens == wtx = << >> /\ wtx' # << >>
Commits == wtx # << >> /\ wtx' = << >>

\* C1: AddBlock(b) of a block that is not stored stores b; when b.height is
\* at least the height of the block at the persisted tip (0 without a tip
\* block) the persisted tip and bc.lastBlockHash become b.hash, also on
\* equal heights; when it is lower both are left as they were.
C1_AddBlockSetsTip ==
    [][ /\ (Opens /\ ~HaveBlock(wtx'[1].block.hash)) =>
              lastBlockHash' = IF wtx'[1].block.height >= GetBestHeight
                               THEN wtx'[1].block.hash ELSE lastBlockHash
        /\ (Commits /\ ~HaveBlock(wtx[1].block.hash)) =>
              /\ blocksBucket' = blocksBucket \cup {wtx[1].block}
              /\ lastHashKey' = IF wtx[1].block.height >= GetBestHeight
                                THEN wtx[1].block.hash ELSE lastHashKey
      ]_vars

\* A tie was won by the block added last (block 1 is stored, block 2 of the
\* same height is the tip), and AddBlock(genesis), a lower block, is about
\* to commit with the tip left alone.
C1_Witness ==
    /\ wtx # << >>
    /\ wtx[1].block = Genesis
    /\ ~HaveBlock(GenesisHash)
    /\ PeerBlock(1) \in blocksBucket
    /\ lastHashKey = PeerHash(2)
    /\ lastBlockHash = PeerHash(2)
    /\ wtx[1].last = PeerHash(2)
    /\ Genesis \in wtx[1].bucket

\* C2: AddBlock(b) of a block whose hash is already stored changes neither
\* the stored blocks nor the persisted tip nor bc.lastBlockHash, whatever
\* was added since b was.
C2_AddBlockIdempotent ==
    [][ /\ (Opens /\ HaveBlock(wtx'[1].block.hash)) => lastBlockHash' = lastBlockHash
        /\ (Commits /\ HaveBlock(wtx[1].block.hash)) => UNCHANGED chainVars
      ]_vars

\* AddBlock of a stored block that is as high as the tip and is not the tip
\* is about to commit.
C2_Witness ==
    /\ wtx # << >>
    /\ HaveBlock(wtx[1].block.hash)
    /\ wtx[1].block.height >= GetBestHeight
    /\ lastHashKey # wtx[1].block.hash
    /\ lastBlockHash # wtx[1].block.hash

\* C3: no reader sees the block AddBlock accepts as the tip without the
\* tip, or the tip without the block: the store has the block exactly when
\* the persisted tip is its hash, and an iterator made from
\* bc.lastBlockHash finds the block of its first position in the store.
C3_ReadersAtomic ==
    /\ (wtx # << >> /\ wtx[1].last = wtx[1].block.hash) =>
          (HaveBlock(wtx[1].block.hash) <=> lastHashKey = wtx[1].block.hash)
    /\ bciStatus # "tip_unreadable"

\* C4: a MineBlock call whose search was cancelled returns unsolved and
\* changes neither the store, the persisted tip, bc.lastBlockHash nor
\* GetBestHeight().
C4_CancelledMineKeepsChain ==
    [][ /\ (minePc = "pow" /\ minePc' # "pow" /\ ~isSolve') => UNCHANGED chainVars
        /\ (minePc = "powdone" /\ minePc' # "powdone" /\ ~isSolve) =>
              /\ minePc' = "unsolved"
              /\ UNCHANGED chainVars
              /\ GetBestHeight' = GetBestHeight
      ]_vars

\* A cancelled MineBlock call has returned while peers' blocks were added.
C4_Witness ==
    /\ minePc = "unsolved"
    /\ GetBestHeight > 0

\* C5: every block MineBlock persists has prevHash equal to the persisted
\* tip at the moment it is persisted (a search on a replaced tip has been
\* cancelled).
C5_MinedOnTip ==
    [][ (minePc = "powdone" /\ minePc' = "setlast") => NewBlock.prev = lastHashKey ]_vars

\* C6: a TerminationMine call never waits for a miner: whenever a caller is
\* at its send, the send can complete.
C6_TerminationMineReturns ==
    \A c \in TermCallers : termPc[c] = "send" => ENABLED NewBlockQuit(c)

\* C7: a search is only cancelled by a TerminationMine call issued after
\* its MineBlock call started.
C7_FreshSignal ==
    [][ \A c \in TermCallers :
          (minePc = "pow" /\ termPc[c] = "send" /\ termPc'[c] = "idle") =>
              termIssue[c] >= mineCount ]_vars

\* C8: in a non-empty store no block is higher than the block at the
\* persisted tip.
C8_TipIsHighest ==
    blocksBucket # {} => \A b \in blocksBucket : b.height <= GetBestHeight

\* C9: every stored block with a prevHash has its parent stored, one
\* height below it, and every stored block without a prevHash has height 0.
C9_ParentLinked ==
    \A b \in blocksBucket :
        IF b.prev # Nil
        THEN \E p \in blocksBucket : p.hash = b.prev /\ b.height = p.height + 1
        ELSE b.height = 0

\* The transactions of the chain FindUTXO ran on.
UtxoChainTxs ==
    UNION {{utxoChain[b][t] : t \in 1..Len(utxoChain[b])} : b \in 1..Len(utxoChain)}

\* The out points referenced by an input of a non-coinbase transaction.
UtxoReferenced ==
    UNION {{TXOutput(tx.inputs[i].hash, tx.inputs[i].index) : i \in 1..Len(tx.inputs)} :
             tx \in {t \in UtxoChainTxs : ~IsCoinBase(t)}}

\* The outputs in the returned map.
UtxoReturned ==
    UNION {{utxoResult[id][k] : k \in 1..Len(utxoResult[id])} : id \in DOMAIN utxoResult}

\* C10: the map FindUTXO returns holds exactly the outputs of the chain's
\* transactions that no input of a non-coinbase transaction of the chain
\* references, wherever the spending transaction is.
C10_FindUTXOExact ==
    utxoPc = "done" =>
        UtxoReturned =
            UNION {{Outputs(tx)[i] : i \in 1..tx.nout} : tx \in UtxoChainTxs} \ UtxoReferenced

\* The last query call was GetBlockHashes with a stored beginHash.
GetBlockHashesCalled ==
    qCall.op = "GetBlockHashes" /\ HaveBlock(qCall.beginHash)

\* The parent of the stored block hash, Nil when it has none.
ParentOf(hash) == BucketGet(blocksBucket, hash)[1].prev

\* C11: for a stored beginHash and maxCount >= 1, GetBlockHashes returns the
\* hashes on the parent path from beginHash toward genesis, starting with
\* beginHash, each returned hash the prevHash of the one before it, ending
\* at the first of: stopHash reached (and not returned), genesis returned,
\* maxCount hashes collected; on a 5-block chain
\* GetBlockHashes(tipHash, genesisHash, maxCount > 4) returns the 4
\* non-genesis hashes.
C11_HashesOnParentPath ==
    (GetBlockHashesCalled /\ qCall.maxNum >= 1) =>
        LET r == qRet.blocks
            n == Len(r)
        IN  /\ qRet.err = "nil"
            /\ n <= qCall.maxNum
            /\ \A i \in 1..n : HaveBlock(r[i]) /\ r[i] # qCall.stopHash
            /\ n >= 1 => r[1] = qCall.beginHash
            /\ \A i \in 1..(n - 1) : r[i + 1] = ParentOf(r[i])
            /\ \/ n = 0 /\ qCall.beginHash = qCall.stopHash
               \/ n >= 1 /\ ParentOf(r[n]) = Nil
               \/ n >= 1 /\ ParentOf(r[n]) = qCall.stopHash
               \/ n = qCall.maxNum
            /\ ( /\ {Genesis, PeerBlock(1), PeerBlock(3), PeerBlock(5), PeerBlock(7)}
                      \subseteq blocksBucket
                 /\ qCall.beginHash = PeerHash(7)
                 /\ qCall.stopHash = GenesisHash
                 /\ qCall.maxNum > 4 )
               => r = <<PeerHash(7), PeerHash(5), PeerHash(3), PeerHash(1)>>

\* C18: GetBlockHashes never returns more than maxCount hashes, for every
\* stored beginHash, every stopHash and every maxCount >= 0; with
\* maxCount = 0 the result is empty.
C18_AtMostMaxCount ==
    (GetBlockHashesCalled /\ qCall.maxNum >= 0) => Len(qRet.blocks) <= qCall.maxNum

\* The entries of the history of calls.
Added(block) == [op |-> "AddBlock", hash |-> block.hash]
Orphaned(block) == [op |-> "addOrphanBlock", hash |-> block.hash]
Reconciled(block) == [op |-> "ReconcileOrphans", hash |-> block.hash]

\* C12: for B1 (height 1) and its child B2 (height 2), handing in B2 before
\* B1 ends in the same chain state as B1 before B2, both when AddBlock is
\* handed B2 at once and when B2 waits in the orphan pool until B1 is
\* accepted: B1 and B2 are stored, GetBlock(B2.hash) finds B2, the
\* persisted tip and bc.lastBlockHash are B2 and GetBestHeight is 2.
C12_SubmissionOrder ==
    LET B1 == PeerBlock(1)
        B2 == PeerBlock(3)
    IN  submitted \in {<<Added(B1), Added(B2)>>,
                       <<Added(B2), Added(B1)>>,
                       <<Orphaned(B2), Added(B1), Reconciled(B1)>>}
        => /\ blocksBucket \ {Genesis} = {B1, B2}
           /\ BucketGet(blocksBucket, B2.hash) = <<B2>>
           /\ lastHashKey = B2.hash
           /\ lastBlockHash = B2.hash
           /\ GetBestHeight = 2

\* The child was added first, the parent second, on a genesis node.
C12_Witness ==
    /\ submitted = <<Added(PeerBlock(3)), Added(PeerBlock(1))>>
    /\ Genesis \in blocksBucket
    /\ lastHashKey = PeerHash(3)

\* Every block in prevOrphanBlocks[p] has prevHash p and is the value of
\* orphanBlocks under its own hash, and every block in orphanBlocks is in
\* prevOrphanBlocks under its prevHash.
OrphanIndicesAgree ==
    /\ \A p \in DOMAIN prevOrphanBlocks : \A i \in 1..Len(prevOrphanBlocks[p]) :
          LET b == prevOrphanBlocks[p][i]
          IN  b.prev = p /\ b.hash \in DOMAIN orphanBlocks /\ orphanBlocks[b.hash] = b
    /\ \A h \in DOMAIN orphanBlocks :
          LET b == orphanBlocks[h]
          IN  /\ b.hash = h
              /\ b.prev \in DOMAIN prevOrphanBlocks
              /\ \E i \in 1..Len(prevOrphanBlocks[b.prev]) : prevOrphanBlocks[b.prev][i] = b

\* C15: whatever blocks addOrphanBlock was called with, and however often,
\* the two orphan indices agree (OrphanIndicesAgree), and a call of
\* addOrphanBlock changes neither the stored blocks nor the persisted tip
\* nor bc.lastBlockHash.
C15_OrphanPoolConsistent ==
    /\ []OrphanIndicesAgree
    /\ [][ (submitted' # submitted /\ submitted'[Len(submitted')].op = "addOrphanBlock")
              => UNCHANGED <<chainVars, wtx>> ]_vars

\* The same block was handed to addOrphanBlock twice, another one once.
C15_Witness ==
    /\ \E p \in DOMAIN prevOrphanBlocks :
          /\ Len(prevOrphanBlocks[p]) = 2
          /\ prevOrphanBlocks[p][1] = prevOrphanBlocks[p][2]
    /\ Cardinality(DOMAIN orphanBlocks) = 2

RECURSIVE PathFrom(_)
\* The stored blocks on the prevHash path that starts at hash.
PathFrom(hash) ==
    IF hash = Nil \/ ~HaveBlock(hash) THEN {}
    ELSE {BucketGet(blocksBucket, hash)[1]} \cup PathFrom(ParentOf(hash))

RECURSIVE PathComplete(_)
\* The path that starts at hash ends at a block without a prevHash, or
\* hash is empty: no block of the path is missing from the store.
PathComplete(hash) ==
    \/ hash = Nil
    \/ HaveBlock(hash) /\ (ParentOf(hash) = Nil \/ PathComplete(ParentOf(hash)))

\* Transaction ID is in a block of the canonical chain, the path from
\* bc.lastBlockHash.
OnCanonicalChain(ID) ==
    \E b \in PathFrom(lastBlockHash) : \E i \in 1..Len(b.txs) : b.txs[i] = ID

\* C13: a MineBlock call handed a batch with a transaction, at whatever
\* position, that VerifyTransaction does not return true for halts the
\* process before the search starts: no block is stored, the persisted tip
\* and bc.lastBlockHash are as they were, and nothing runs afterwards.
C13_InvalidBatchHalts ==
    [][ /\ ( /\ minePc \in MineReturned
             /\ minePc' \notin MineReturned
             /\ \E i \in 1..Len(mineTxs') : VerifyTransaction(mineTxs'[i]) # "true" )
           => (minePc' = "panic" /\ UNCHANGED <<chainVars, wtx>>)
        /\ minePc # "panic"
      ]_vars

\* MineBlock has halted on a batch whose second transaction has a bad
\* signature, on a chain that has a tip block.
C13_Witness ==
    /\ minePc = "panic"
    /\ HaveBlock(lastHashKey)
    /\ Len(mineTxs) = 2
    /\ VerifyTransaction(mineTxs[1]) = "true"
    /\ VerifyTransaction(mineTxs[2]) = "false"

\* C14: FindTransaction(id) returns the transaction when a block on the
\* path from bc.lastBlockHash holds it, and ErrorNotFoundTransaction when
\* the walk of that path ends without it: when the transaction is only in
\* a block of the orphan pool, only in a stored block off the path, or
\* when there is no block at all.
C14_FindOnCanonicalChain ==
    [][ (qCall.op = "none" /\ qCall'.op = "FindTransaction") =>
          /\ OnCanonicalChain(qCall'.ID) => qRet' = [err |-> "nil", ret |-> "found"]
          /\ (~OnCanonicalChain(qCall'.ID) /\ PathComplete(lastBlockHash))
                => qRet'.err = "ErrorNotFoundTransaction"
      ]_vars

\* The transaction of block 1 was not found: block 1 is stored, but its
\* competitor at the same height is the tip.
C14_Witness ==
    /\ qCall = [op |-> "FindTransaction", ID |-> PeerHash(1)]
    /\ qRet.err = "ErrorNotFoundTransaction"
    /\ {Genesis, PeerBlock(1), PeerBlock(2)} \subseteq blocksBucket
    /\ lastBlockHash = PeerHash(2)

\* C19: VerifyTransaction returns true for a coinbase transaction without
\* looking up any transaction; for any other transaction one of whose
\* inputs refers to a transaction that is not on the canonical chain at
\* the time of the call it halts the process and does not return false.
C19_VerifyHaltsOnMissing ==
    [][ (qCall.op = "none" /\ qCall'.op = "VerifyTransaction") =>
          LET tx == qCall'.tx
          IN  /\ IsCoinBase(tx) =>
                    qRet' = [err |-> "nil", ret |-> "true", lookups |-> << >>]
              /\ ( /\ ~IsCoinBase(tx)
                   /\ \E i \in 1..Len(tx.inputs) : ~OnCanonicalChain(tx.inputs[i].hash) )
                    => (qRet'.err = "panic" /\ Halted')
      ]_vars

\* VerifyTransaction has halted on a well-signed spend of the coinbase of
\* block 1, which is stored, after its competitor became the tip.
C19_Witness ==
    /\ qCall = [op |-> "VerifyTransaction", tx |-> SpendTx(PeerHash(1), TRUE)]
    /\ qRet.err = "panic"
    /\ {Genesis, PeerBlock(1), PeerBlock(2)} \subseteq blocksBucket
    /\ lastBlockHash = PeerHash(2)
    /\ wtx = << >>

C17_TipCopiesAgree ==
    (wtx = << >> /\ minePc \in MineReturned) => lastBlockHash = lastHashKey

====
